---------------------------- MODULE Spec2Model ----------------------------
(***************************************************************************)
(* Model of StockPortfolio (src/tempCodeRunnerFile.py): the symbol         *)
(* classifier, the quote resolver, the exchange-rate cache, the stocks     *)
(* table and the valuation pass of view_portfolio.                         *)
(*                                                                         *)
(* Conventions.                                                            *)
(*  - A Python str is a sequence of one-character strings, so that         *)
(*    endswith, upper and concatenation are computed, not assumed.         *)
(*  - Python None is the empty sequence None; a present value v is the     *)
(*    one-element sequence <<v>> (Some(v)).                                *)
(*  - Prices, buy prices and rates are integers (the code's floats on      *)
(*    whole values); pnl_percent, a quotient, is kept as an exact          *)
(*    fraction [num, den].                                                 *)
(*  - company_name and the printed text are display-only: no computation   *)
(*    reads them, and they are left out of the rows.                       *)
(***************************************************************************)
EXTENDS Integers, Sequences, FiniteSets

VARIABLES
    schema,              \* "new": stocks has the currency column; "old": it has not
    stocks,              \* the rows of table stocks, in insertion order
    next_id,             \* the next AUTOINCREMENT id
    usd_to_inr_rate,     \* self.usd_to_inr_rate: None or Some(rate)
    rate_origin,         \* which assignment set usd_to_inr_rate: "unset", "fetched", "fallback"
    pc,                  \* "idle", or "rows" while view_portfolio is in its loop
    view_stocks,         \* view_portfolio: the rows fetched (local stocks)
    usd_to_inr,          \* view_portfolio: local usd_to_inr, None before the pass
    view_quotes,         \* view_portfolio: what get_stock_price returned, row by row
    view_rows,           \* view_portfolio: the rows computed so far
    total_invested_inr,  \* view_portfolio: local total_invested_inr
    total_current_inr,   \* view_portfolio: local total_current_inr
    totals,              \* view_portfolio: None, or Some([total_pnl_inr, total_pnl_percent])
    view_outcome,        \* "none", "running", "empty", "done", "raised"
    add_call,            \* the last add_stock call: None or Some([symbol, quantity, buy_price, outcome])
    rate_call,           \* the last direct get_usd_to_inr_rate call: None or Some(record)
    rate_calls,          \* direct calls of get_usd_to_inr_rate so far
    rate_fetches,        \* network requests those calls issued
    rate_success,        \* None, or Some([rate, fetches]) at the first successful fetch
    lookup_symbol,       \* the symbol handed to detect_stock_type / get_stock_price
    lookup_class,        \* None or Some(detect_stock_type(lookup_symbol))
    lookup_quote         \* None or Some([kind, quote]) of a direct get_stock_price call

vars == <<schema, stocks, next_id, usd_to_inr_rate, rate_origin, pc, view_stocks,
          usd_to_inr, view_quotes, view_rows, total_invested_inr, total_current_inr,
          totals, view_outcome, add_call, rate_call, rate_calls, rate_fetches,
          rate_success, lookup_symbol, lookup_class, lookup_quote>>

tableVars == <<schema, stocks, next_id>>
rateVars == <<usd_to_inr_rate, rate_origin>>
viewVars == <<pc, view_stocks, usd_to_inr, view_quotes, view_rows, total_invested_inr,
              total_current_inr, totals, view_outcome>>
rateLogVars == <<rate_call, rate_calls, rate_fetches, rate_success>>
lookupVars == <<lookup_symbol, lookup_class, lookup_quote>>

(***************************************************************************)
(* Bounds of the model.                                                    *)
(***************************************************************************)
\* ids handed out by AUTOINCREMENT, hence rows ever inserted
MaxId == 2
\* direct calls of get_usd_to_inr_rate in one session
MaxRateCalls == 7

None == <<>>
Some(v) == <<v>>

(***************************************************************************)
(* Python str helpers.                                                     *)
(***************************************************************************)
LowerChars == <<"a","b","c","d","e","f","g","h","i","j","k","l","m","n","o","p","q","r","s","t","u","v","w","x","y","z">>
UpperChars == <<"A","B","C","D","E","F","G","H","I","J","K","L","M","N","O","P","Q","R","S","T","U","V","W","X","Y","Z">>

\* str.upper() on one character
UpperChar(c) ==
    IF \E i \in 1..Len(LowerChars) : LowerChars[i] = c
    THEN UpperChars[CHOOSE i \in 1..Len(LowerChars) : LowerChars[i] = c]
    ELSE c

\* str.upper()
Upper(s) == [i \in 1..Len(s) |-> UpperChar(s[i])]

\* str.lower() on one character, used to build lower-case inputs
LowerChar(c) ==
    IF \E i \in 1..Len(UpperChars) : UpperChars[i] = c
    THEN LowerChars[CHOOSE i \in 1..Len(UpperChars) : UpperChars[i] = c]
    ELSE c

Lower(s) == [i \in 1..Len(s) |-> LowerChar(s[i])]

\* str.endswith(suffix)
EndsWith(s, suffix) ==
    /\ Len(s) >= Len(suffix)
    /\ SubSeq(s, Len(s) - Len(suffix) + 1, Len(s)) = suffix

(***************************************************************************)
(* detect_stock_type                                                       *)
(***************************************************************************)
indian_suffixes == { <<".", "N", "S">>, <<".", "B", "O">> }

indian_stocks == {
      <<"T","C","S">>,
      <<"I","N","F","Y">>,
      <<"R","E","L","I","A","N","C","E">>,
      <<"H","D","F","C","B","A","N","K">>,
      <<"I","C","I","C","I","B","A","N","K">>,
      <<"I","T","C">>,
      <<"H","I","N","D","U","N","I","L","V","R">>,
      <<"S","B","I","N">>,
      <<"B","H","A","R","T","I","A","R","T","L">>,
      <<"K","O","T","A","K","B","A","N","K">>,
      <<"L","T">>,
      <<"A","S","I","A","N","P","A","I","N","T">>,
      <<"M","A","R","U","T","I">>,
      <<"H","C","L","T","E","C","H">>,
      <<"W","I","P","R","O">>,
      <<"T","E","C","H","M">>,
      <<"T","I","T","A","N">>,
      <<"U","L","T","R","A","C","E","M","C","O">>,
      <<"N","E","S","T","L","E","I","N","D">>,
      <<"P","O","W","E","R","G","R","I","D">>,
      <<"T","A","T","A","M","O","T","O","R","S">>,
      <<"M","&","M">>,
      <<"O","N","G","C">>,
      <<"N","T","P","C">>,
      <<"C","O","A","L","I","N","D","I","A">>,
      <<"J","S","W","S","T","E","E","L">>,
      <<"T","A","T","A","S","T","E","E","L">>,
      <<"H","I","N","D","A","L","C","O">>,
      <<"B","A","J","F","I","N","A","N","C","E">>,
      <<"B","A","J","A","J","F","I","N","S","V">>,
      <<"A","X","I","S","B","A","N","K">>,
      <<"S","U","N","P","H","A","R","M","A">>,
      <<"D","R","R","E","D","D","Y">>
    }

\* A plausible slip: the allow-list is compared without upper().
detect_stock_type_NoUpper(symbol) ==
    IF \E suffix \in indian_suffixes : EndsWith(symbol, suffix)
    THEN <<"indian", symbol>>
    ELSE IF symbol \in indian_stocks
         THEN <<"indian", symbol \o <<".", "N", "S">>>>
         ELSE <<"international", symbol>>

detect_stock_type(symbol) ==
    IF \E suffix \in indian_suffixes : EndsWith(symbol, suffix)
    THEN <<"indian", symbol>>
    ELSE IF Upper(symbol) \in indian_stocks
         THEN <<"indian", symbol \o <<".", "N", "S">>>>
         ELSE <<"international", symbol>>

(***************************************************************************)
(* The quote provider.  A response is what one requests.get(...).json()    *)
(* yields: err = TRUE when requests.get or .json() raises (network error,  *)
(* timeout, body that is no JSON), else data, the decoded JSON object, as  *)
(* a record; a JSON list is a sequence (null and [] are both falsy and     *)
(* both modelled as the empty sequence).  kind names the shape.            *)
(***************************************************************************)
Payload(kind, data) == [kind |-> kind, err |-> FALSE, data |-> data]

NetworkError == [kind |-> "network_error", err |-> TRUE, data |-> None]
NoChart == Payload("no_chart", [error |-> "x"])
NoResultKey == Payload("no_result_key", [chart |-> [error |-> "x"]])
EmptyResult == Payload("empty_result", [chart |-> [result |-> <<>>]])
NoMeta == Payload("no_meta", [chart |-> [result |-> <<[indicators |-> "x"]>>]])
NoPrice == Payload("no_price", [chart |-> [result |-> <<[meta |-> [symbol |-> "x"]]>>]])
Priced(p) ==
    Payload("priced", [chart |-> [result |-> <<[meta |-> [regularMarketPrice |-> p]]>>]])

FailedResponses == {NetworkError, NoChart, NoResultKey, EmptyResult, NoMeta, NoPrice}

\* prices the provider quotes for a stock (0: a quote of zero)
QuotePrices == {0, 210}
\* rates the provider quotes for USDINR=X: positive numbers, so that the
\* divisions by usd_to_inr at lines 230-231 are defined
RateValues == {80, 85}

QuoteResponses == FailedResponses \cup { Priced(p) : p \in QuotePrices }
RateResponses == FailedResponses \cup { Priced(r) : r \in RateValues }

(***************************************************************************)
(* A Python call either returns a value or raises.                         *)
(***************************************************************************)
Return(v) == [raised |-> FALSE, value |-> v]
Raise == [raised |-> TRUE, value |-> None]

(***************************************************************************)
(* get_usd_to_inr_rate.  The result is the new self.usd_to_inr_rate, the   *)
(* value returned, whether a request was issued, and the line that         *)
(* decided: "cached" (51, no request), "fetched" (47), "fallback_cached"   *)
(* (49), "fallback" (53).                                                  *)
(***************************************************************************)
FallbackRate == 83

RateResult(rate, ret, fetched, path) ==
    [rate |-> rate, ret |-> ret, fetched |-> fetched, path |-> path]

\* A plausible slip: the "is None" test is dropped, every call fetches.
get_usd_to_inr_rate_AlwaysFetch(rate, resp) ==
    IF resp.err
    THEN RateResult(rate, FallbackRate, TRUE, "fallback")
    ELSE LET data == resp.data IN
         IF "chart" \notin DOMAIN data
         THEN RateResult(Some(FallbackRate), FallbackRate, TRUE, "fallback_cached")
         ELSE IF "result" \notin DOMAIN data.chart
         THEN RateResult(rate, FallbackRate, TRUE, "fallback")
         ELSE IF Len(data.chart.result) > 0
         THEN LET result == data.chart.result[1] IN
              IF "meta" \in DOMAIN result /\ "regularMarketPrice" \in DOMAIN result.meta
              THEN RateResult(Some(result.meta.regularMarketPrice),
                              result.meta.regularMarketPrice, TRUE, "fetched")
              ELSE RateResult(rate, FallbackRate, TRUE, "fallback")
         ELSE RateResult(Some(FallbackRate), FallbackRate, TRUE, "fallback_cached")

get_usd_to_inr_rate(rate, resp) ==
    IF rate = None
    THEN \* line 42-43: the request; an exception goes to line 52-53
         IF resp.err
         THEN RateResult(rate, FallbackRate, TRUE, "fallback")
         ELSE LET data == resp.data IN
              \* line 45: 'chart' in data and data['chart']['result'] and len(...) > 0
              IF "chart" \notin DOMAIN data
              THEN RateResult(Some(FallbackRate), FallbackRate, TRUE, "fallback_cached")
              ELSE IF "result" \notin DOMAIN data.chart
              THEN RateResult(rate, FallbackRate, TRUE, "fallback")      \* KeyError
              ELSE IF Len(data.chart.result) > 0
              THEN LET result == data.chart.result[1] IN
                   \* line 47: result['meta']['regularMarketPrice'], KeyError if missing
                   IF "meta" \in DOMAIN result /\ "regularMarketPrice" \in DOMAIN result.meta
                   THEN RateResult(Some(result.meta.regularMarketPrice),
                                   result.meta.regularMarketPrice, TRUE, "fetched")
                   ELSE RateResult(rate, FallbackRate, TRUE, "fallback")
              ELSE RateResult(Some(FallbackRate), FallbackRate, TRUE, "fallback_cached")
    ELSE RateResult(rate, rate[1], FALSE, "cached")

\* rate_origin after a call that took `path`
OriginAfter(origin, path) ==
    CASE path = "fetched" -> "fetched"
      [] path = "fallback_cached" -> "fallback"
      [] OTHER -> origin

(***************************************************************************)
(* get_stock_price.  A quote is [current_price, price_currency], both      *)
(* None for the absent quote (None, None).                                 *)
(***************************************************************************)
Quote(price, currency) == [current_price |-> price, price_currency |-> currency]
NoQuote == Quote(None, None)

\* the try block, lines 80-99
get_stock_price_try(symbol, resp) ==
    LET stock_type == detect_stock_type(symbol)[1] IN
    IF resp.err
    THEN Raise
    ELSE LET data == resp.data IN
         IF "chart" \notin DOMAIN data
         THEN Return(NoQuote)
         ELSE IF "result" \notin DOMAIN data.chart
         THEN Raise                                                   \* KeyError
         ELSE IF Len(data.chart.result) > 0
         THEN LET result == data.chart.result[1] IN
              IF "meta" \notin DOMAIN result
              THEN Raise                                              \* KeyError
              ELSE IF "regularMarketPrice" \in DOMAIN result.meta
              THEN Return(Quote(Some(result.meta.regularMarketPrice),
                                Some(IF stock_type = "indian" THEN "INR" ELSE "USD")))
              ELSE Return(NoQuote)
         ELSE Return(NoQuote)

\* A plausible slip: no except clause, the exception leaves get_stock_price.
get_stock_price_NoExcept(symbol, resp) == get_stock_price_try(symbol, resp)

\* lines 79-103: except Exception returns (None, None)
get_stock_price(symbol, resp) ==
    LET r == get_stock_price_try(symbol, resp) IN
    IF r.raised THEN Return(NoQuote) ELSE r

(***************************************************************************)
(* Table stocks.  A row of the current schema carries currency; a row of   *)
(* the old schema (a database file made before the column existed, which   *)
(* CREATE TABLE IF NOT EXISTS leaves as it is) does not.  date_added is    *)
(* the insertion time, modelled by the insertion count.                    *)
(***************************************************************************)
NewRow(id, symbol, quantity, buy_price, currency) ==
    [id |-> id, symbol |-> symbol, quantity |-> quantity, buy_price |-> buy_price,
     currency |-> currency, date_added |-> id]

OldRow(id, symbol, quantity, buy_price) ==
    [id |-> id, symbol |-> symbol, quantity |-> quantity, buy_price |-> buy_price,
     date_added |-> id]

SymTCS == <<"T", "C", "S">>
SymAAPL == <<"A", "A", "P", "L">>

\* symbols typed at the prompt (add_stock uppercases them)
AddSymbols == { Lower(SymTCS), SymAAPL }
\* (quantity, buy_price) handed to add_stock
AddHoldings == { <<5, 200>>, <<5, 0>>, <<-1, 200>>, <<5, -1>> }
\* rows of an old-schema table
LegacySymbols == { SymTCS, Lower(SymTCS), SymAAPL }
LegacyHoldings == { <<5, 200>>, <<5, 0>> }

LegacyTables ==
    UNION { { [i \in 1..n |-> OldRow(i, f[i][1], f[i][2][1], f[i][2][2])] :
                f \in [1..n -> LegacySymbols \X LegacyHoldings] } : n \in 0..MaxId }

CurrencyOf(stock_type) == IF stock_type = "indian" THEN "INR" ELSE "USD"

\* A plausible slip: the type is compared in its printed, capitalised form.
add_stock_row_TitleCase(id, symbol, quantity, buy_price) ==
    LET upper == Upper(symbol)
        stock_type == detect_stock_type(upper)[1]
    IN NewRow(id, upper, quantity, buy_price,
              IF stock_type = "Indian" THEN "INR" ELSE "USD")

\* add_stock, lines 128-143: the row inserted
add_stock_row(id, symbol, quantity, buy_price) ==
    LET upper == Upper(symbol)
        stock_type == detect_stock_type(upper)[1]
    IN NewRow(id, upper, quantity, buy_price, CurrencyOf(stock_type))

RECURSIVE OrderByDateAddedDesc(_)
\* SELECT * FROM stocks ORDER BY date_added DESC
OrderByDateAddedDesc(rows) ==
    IF rows = <<>>
    THEN <<>>
    ELSE LET i == CHOOSE i \in 1..Len(rows) :
                    \A j \in 1..Len(rows) : rows[j].date_added <= rows[i].date_added
             rest == [k \in 1..(Len(rows) - 1) |-> IF k < i THEN rows[k] ELSE rows[k + 1]]
         IN <<rows[i]>> \o OrderByDateAddedDesc(rest)

\* DELETE FROM stocks WHERE id IN ids
DeleteIds(rows, ids) == SelectSeq(rows, LAMBDA r : r.id \notin ids)

(***************************************************************************)
(* view_portfolio, one row of the loop (lines 178-222).                    *)
(***************************************************************************)
\* A plausible slip: an old-schema row is taken to be a USD holding.
HoldingCurrency_LegacyUSD(stock) ==
    IF "currency" \notin DOMAIN stock THEN "USD" ELSE stock.currency

\* lines 180-185: the currency of a fetched row
HoldingCurrency(stock) ==
    IF "currency" \notin DOMAIN stock
    THEN CurrencyOf(detect_stock_type(stock.symbol)[1])
    ELSE stock.currency

\* Python truth of current_price: None and 0 are false
Truthy(price) == price # None /\ price[1] # 0

NARow(currency) == [status |-> "na", currency |-> currency]

ValuedRow(currency, invested_inr, current_value_inr, pnl_inr, pnl_percent) ==
    [status |-> "valued", currency |-> currency, invested_inr |-> invested_inr,
     current_value_inr |-> current_value_inr, pnl_inr |-> pnl_inr,
     pnl_percent |-> pnl_percent]

\* the locals of a row whose line 210 raised: the row is not printed
RaisedRow(currency, invested_inr, current_value_inr, pnl_inr) ==
    [status |-> "raised", currency |-> currency, invested_inr |-> invested_inr,
     current_value_inr |-> current_value_inr, pnl_inr |-> pnl_inr]

\* lines 189-222; line 210 raises ZeroDivisionError when invested_inr = 0
view_row(stock, quote, rate) ==
    LET currency == HoldingCurrency(stock)
        quantity == stock.quantity
        buy_price == stock.buy_price
    IN IF Truthy(quote.current_price)
       THEN LET current_price == quote.current_price[1]
                invested_inr == IF currency = "USD"
                                THEN quantity * buy_price * rate
                                ELSE quantity * buy_price
                current_value_inr == IF quote.price_currency = Some("USD")
                                     THEN quantity * current_price * rate
                                     ELSE quantity * current_price
                pnl_inr == current_value_inr - invested_inr
            IN IF invested_inr = 0
               THEN [raised |-> TRUE,
                     value |-> RaisedRow(currency, invested_inr, current_value_inr, pnl_inr)]
               ELSE Return(ValuedRow(currency, invested_inr, current_value_inr, pnl_inr,
                                     [num |-> pnl_inr * 100, den |-> invested_inr]))
       ELSE Return(NARow(currency))

\* A plausible slip: the percentage is taken without the total_invested_inr > 0 test.
view_totals_NoGuard(invested, current) ==
    [total_pnl_inr |-> current - invested,
     total_pnl_percent |-> [num |-> (current - invested) * 100, den |-> invested]]

\* lines 225-226
view_totals(invested, current) ==
    LET total_pnl_inr == current - invested
    IN [total_pnl_inr |-> total_pnl_inr,
        total_pnl_percent |-> IF invested > 0
                              THEN [num |-> total_pnl_inr * 100, den |-> invested]
                              ELSE [num |-> 0, den |-> 1]]

\* how the provider's answer is named in view_quotes: by an exception, by a
\* payload without a price, or with a price
ResponseClass(resp) ==
    CASE resp.kind \in {"network_error", "no_result_key", "no_meta"} -> "exception"
      [] resp.kind \in {"no_chart", "empty_result", "no_price"} -> "malformed"
      [] OTHER -> "priced"

(***************************************************************************)
(* Initial states: a fresh session.  The database file is new (empty,      *)
(* current schema) or an old-schema file with rows in it.                  *)
(***************************************************************************)
ViewBlank ==
    /\ pc = "idle"
    /\ view_stocks = <<>>
    /\ usd_to_inr = None
    /\ view_quotes = <<>>
    /\ view_rows = <<>>
    /\ total_invested_inr = 0
    /\ total_current_inr = 0
    /\ totals = None
    /\ view_outcome = "none"

SessionInit ==
    /\ usd_to_inr_rate = None          \* __init__, line 10
    /\ rate_origin = "unset"
    /\ ViewBlank
    /\ add_call = None
    /\ rate_call = None
    /\ rate_calls = 0
    /\ rate_fetches = 0
    /\ rate_success = None
    /\ lookup_class = None
    /\ lookup_quote = None

Init ==
    /\ SessionInit
    /\ lookup_symbol = <<>>
    /\ \/ /\ schema = "new"
          /\ stocks = <<>>
          /\ next_id = 1
       \/ /\ schema = "old"
          /\ stocks \in LegacyTables
          /\ next_id = Len(stocks) + 1

\* the locals of a finished view_portfolio are gone once another operation runs
ViewReset ==
    /\ pc' = "idle"
    /\ view_stocks' = <<>>
    /\ usd_to_inr' = None
    /\ view_quotes' = <<>>
    /\ view_rows' = <<>>
    /\ total_invested_inr' = 0
    /\ total_current_inr' = 0
    /\ totals' = None
    /\ view_outcome' = "none"

(***************************************************************************)
(* add_stock (lines 126-150).  On an old-schema table the INSERT names a   *)
(* column the table lacks and sqlite3 raises; nothing is stored.           *)
(***************************************************************************)
AddCall(symbol, quantity, buy_price, outcome) ==
    Some([symbol |-> symbol, quantity |-> quantity, buy_price |-> buy_price,
          outcome |-> outcome])

AddStock ==
    /\ pc = "idle"
    /\ next_id <= MaxId
    /\ \E symbol \in AddSymbols, h \in AddHoldings :
          IF schema = "new"
          THEN /\ stocks' = Append(stocks, add_stock_row(next_id, symbol, h[1], h[2]))
               /\ next_id' = next_id + 1
               /\ add_call' = AddCall(symbol, h[1], h[2], "stored")
          ELSE /\ UNCHANGED <<stocks, next_id>>
               /\ add_call' = AddCall(symbol, h[1], h[2], "raised")
    /\ ViewReset
    /\ UNCHANGED <<schema, rateVars, rateLogVars, lookupVars>>

(***************************************************************************)
(* delete_stock (lines 235-251)                                            *)
(***************************************************************************)
DeleteStock ==
    /\ pc = "idle"
    /\ \E stock_id \in 1..MaxId :
          stocks' = IF \E i \in 1..Len(stocks) : stocks[i].id = stock_id
                    THEN DeleteIds(stocks, {stock_id})
                    ELSE stocks
    /\ add_call' = None
    /\ ViewReset
    /\ UNCHANGED <<schema, next_id, rateVars, rateLogVars, lookupVars>>

(***************************************************************************)
(* delete_multiple_stocks (lines 333-389): the ids typed and the answer    *)
(* to the confirmation prompt.                                             *)
(***************************************************************************)
DeleteMultipleStocks ==
    /\ pc = "idle"
    /\ \E stock_ids \in (SUBSET (1..MaxId)) \ {{}}, confirm \in BOOLEAN :
          stocks' = IF /\ stocks # <<>>
                       /\ \E i \in 1..Len(stocks) : stocks[i].id \in stock_ids
                       /\ confirm
                    THEN DeleteIds(stocks, stock_ids)
                    ELSE stocks
    /\ add_call' = None
    /\ ViewReset
    /\ UNCHANGED <<schema, next_id, rateVars, rateLogVars, lookupVars>>

(***************************************************************************)
(* clear_all_data (lines 286-331): the answer typed at the prompt.         *)
(***************************************************************************)
ClearAllData ==
    /\ pc = "idle"
    /\ \E confirmed \in BOOLEAN :
          stocks' = IF Len(stocks) # 0 /\ confirmed THEN <<>> ELSE stocks
    /\ add_call' = None
    /\ ViewReset
    /\ UNCHANGED <<schema, next_id, rateVars, rateLogVars, lookupVars>>

(***************************************************************************)
(* view_portfolio (lines 152-233), in the steps of its loop: the start     *)
(* (152-176), one step per row (178-222), the totals (224-233).  Nothing   *)
(* else runs while the pass is in its loop (one thread).                   *)
(***************************************************************************)
\* the responses a call can meet: a call that issues no request reads none
RequestsFor(rate) == IF rate = None THEN RateResponses ELSE {NetworkError}

ViewPortfolio ==
    /\ pc = "idle"
    /\ LET fetched == OrderByDateAddedDesc(stocks) IN
       IF fetched = <<>>
       THEN \* lines 161-163: "portfolio is empty", return
            /\ pc' = "idle"
            /\ view_stocks' = <<>>
            /\ usd_to_inr' = None
            /\ view_quotes' = <<>>
            /\ view_rows' = <<>>
            /\ total_invested_inr' = 0
            /\ total_current_inr' = 0
            /\ totals' = None
            /\ view_outcome' = "empty"
            /\ UNCHANGED rateVars
       ELSE \E resp \in RequestsFor(usd_to_inr_rate) :
               LET r == get_usd_to_inr_rate(usd_to_inr_rate, resp) IN
               /\ usd_to_inr_rate' = r.rate
               /\ rate_origin' = OriginAfter(rate_origin, r.path)
               /\ usd_to_inr' = Some(r.ret)
               /\ pc' = "rows"
               /\ view_stocks' = fetched
               /\ view_quotes' = <<>>
               /\ view_rows' = <<>>
               /\ total_invested_inr' = 0
               /\ total_current_inr' = 0
               /\ totals' = None
               /\ view_outcome' = "running"
    /\ add_call' = None
    /\ UNCHANGED <<tableVars, rateLogVars, lookupVars>>

ViewRow ==
    /\ pc = "rows"
    /\ Len(view_quotes) < Len(view_stocks)
    /\ \E resp \in QuoteResponses :
          LET stock == view_stocks[Len(view_quotes) + 1]
              call == get_stock_price(stock.symbol, resp)       \* line 187
              row == view_row(stock, call.value, usd_to_inr[1])
          IN /\ view_quotes' = Append(view_quotes,
                                      [cause |-> ResponseClass(resp), raised |-> call.raised,
                                       quote |-> IF call.raised THEN NoQuote ELSE call.value])
             /\ IF call.raised
                THEN \* the exception leaves view_portfolio at line 187
                     /\ pc' = "idle"
                     /\ view_outcome' = "raised"
                     /\ UNCHANGED <<view_rows, total_invested_inr, total_current_inr>>
                ELSE IF row.raised
                THEN \* the exception leaves view_portfolio at line 210
                     /\ pc' = "idle"
                     /\ view_outcome' = "raised"
                     /\ view_rows' = Append(view_rows, row.value)
                     /\ UNCHANGED <<total_invested_inr, total_current_inr>>
                ELSE /\ view_rows' = Append(view_rows, row.value)
                     /\ IF row.value.status = "valued"
                        THEN /\ total_invested_inr' =
                                    total_invested_inr + row.value.invested_inr
                             /\ total_current_inr' =
                                    total_current_inr + row.value.current_value_inr
                        ELSE UNCHANGED <<total_invested_inr, total_current_inr>>
                     /\ UNCHANGED <<pc, view_outcome>>
    /\ UNCHANGED <<view_stocks, usd_to_inr, totals, add_call>>
    /\ UNCHANGED <<tableVars, rateVars, rateLogVars, lookupVars>>

ViewTotals ==
    /\ pc = "rows"
    /\ Len(view_quotes) = Len(view_stocks)
    /\ totals' = Some(view_totals(total_invested_inr, total_current_inr))
    /\ view_outcome' = "done"
    /\ pc' = "idle"
    /\ UNCHANGED <<view_stocks, usd_to_inr, view_quotes, view_rows, total_invested_inr,
                   total_current_inr, add_call>>
    /\ UNCHANGED <<tableVars, rateVars, rateLogVars, lookupVars>>

Next ==
    \/ AddStock
    \/ DeleteStock
    \/ DeleteMultipleStocks
    \/ ClearAllData
    \/ ViewPortfolio
    \/ ViewRow
    \/ ViewTotals

Spec == Init /\ [][Next]_vars

(***************************************************************************)
(* get_usd_to_inr_rate called on its own, call after call, in one session  *)
(* (one StockPortfolio object), with the calls and requests counted.       *)
(***************************************************************************)
GetUsdToInrRate ==
    /\ rate_calls < MaxRateCalls
    /\ \E resp \in RequestsFor(usd_to_inr_rate) :
          LET r == get_usd_to_inr_rate(usd_to_inr_rate, resp)
              n == rate_fetches + (IF r.fetched THEN 1 ELSE 0)
          IN /\ usd_to_inr_rate' = r.rate
             /\ rate_origin' = OriginAfter(rate_origin, r.path)
             /\ rate_calls' = rate_calls + 1
             /\ rate_fetches' = n
             /\ rate_call' = Some([before |-> usd_to_inr_rate, fetched |-> r.fetched,
                                   kind |-> IF r.fetched THEN resp.kind ELSE "no_request",
                                   ret |-> r.ret])
             /\ rate_success' = IF rate_success = None /\ r.path = "fetched"
                                THEN Some([rate |-> r.ret, fetches |-> n])
                                ELSE rate_success
    /\ UNCHANGED <<tableVars, viewVars, add_call, lookupVars>>

RateInit ==
    /\ SessionInit
    /\ lookup_symbol = <<>>
    /\ schema = "new"
    /\ stocks = <<>>
    /\ next_id = 1

RateNext == GetUsdToInrRate

SpecRate == RateInit /\ [][RateNext]_vars

(***************************************************************************)
(* detect_stock_type and get_stock_price on one symbol.                    *)
(***************************************************************************)
SuffixNS == <<".", "N", "S">>
SuffixBO == <<".", "B", "O">>

LookupSymbols ==
    indian_stocks
      \cup { Lower(s) : s \in indian_stocks }
      \cup { s \o SuffixNS : s \in indian_stocks }
      \cup { Lower(s) \o SuffixBO : s \in indian_stocks }
      \cup { SymAAPL, Lower(SymAAPL), SymAAPL \o SuffixBO, SymAAPL \o Lower(SuffixNS),
             Lower(SymTCS) \o Lower(SuffixNS), <<>>, SuffixNS, <<"N", "S">>,
             <<"T", "c", "s">>, <<"T", "C", "S", ".", "N">>, <<"T", "C">>,
             <<"T", "C", "S", "X">>, <<"M", "&", "M", ".", "B", "O">> }

DetectStockType ==
    /\ lookup_class' = Some(detect_stock_type(lookup_symbol))
    /\ UNCHANGED <<lookup_symbol, lookup_quote>>
    /\ UNCHANGED <<tableVars, rateVars, viewVars, add_call, rateLogVars>>

GetStockPrice ==
    /\ \E resp \in QuoteResponses :
          lookup_quote' = Some([kind |-> resp.kind,
                                call |-> get_stock_price(lookup_symbol, resp)])
    /\ UNCHANGED <<lookup_symbol, lookup_class>>
    /\ UNCHANGED <<tableVars, rateVars, viewVars, add_call, rateLogVars>>

LookupInit ==
    /\ SessionInit
    /\ lookup_symbol \in LookupSymbols
    /\ schema = "new"
    /\ stocks = <<>>
    /\ next_id = 1

LookupNext == DetectStockType \/ GetStockPrice

SpecLookup == LookupInit /\ [][LookupNext]_vars

(***************************************************************************)
(* The claims.                                                             *)
(***************************************************************************)
\* the rows of the pass for which get_stock_price has been called
Processed == 1..Len(view_quotes)

\* the quote resolver returned a quote: a numeric price, zero included
HasQuote(i) == view_quotes[i].quote.current_price # None

\* the pass has ended: by return or by an exception
PassEnded == view_outcome \in {"empty", "done", "raised"}

IsZeroPercent(f) == f.num = 0 /\ f.den # 0

\* C1: a pass over a holding with buy_price = 0 and quantity > 0 whose quote
\* resolves to a price does not raise: the row's pnl_percent is 0 or withheld
\* and the pass goes on to the remaining rows and the totals.
C1_ZeroInvestedRowDoesNotRaise ==
    \A i \in Processed :
        (/\ view_stocks[i].buy_price = 0
         /\ view_stocks[i].quantity > 0
         /\ HasQuote(i))
        => /\ i <= Len(view_rows)
           /\ view_rows[i].status \in {"valued", "na"}
           /\ view_rows[i].status = "valued" => IsZeroPercent(view_rows[i].pnl_percent)
           /\ ~(view_outcome = "raised" /\ i = Len(view_quotes))

\* C2: whenever get_usd_to_inr_rate fails to obtain a rate from the provider
\* (network error, malformed payload, missing price field) it returns the
\* fallback 83.0 and leaves the cached rate unset.
C2_FailureNotCached ==
    (rate_call # None /\ rate_call[1].fetched /\ rate_call[1].kind # "priced")
    => /\ rate_call[1].ret = FallbackRate
       /\ usd_to_inr_rate = None

\* C3: within one session, after the first call of get_usd_to_inr_rate that
\* fetches a rate, every later call returns that value and issues no request:
\* the number of requests stays what it was at that success and the cached
\* rate does not change.
C3_MemoizedAfterSuccess ==
    rate_success # None
    => /\ usd_to_inr_rate = Some(rate_success[1].rate)
       /\ rate_fetches = rate_success[1].fetches
       /\ rate_call[1].ret = rate_success[1].rate

\* C3 witness: two more calls were made after a successful fetch
C3_Witness ==
    /\ rate_success # None
    /\ rate_calls >= rate_success[1].fetches + 2
    /\ rate_call[1].kind = "no_request"

C4_HasDomesticSuffix(s) ==
    /\ Len(s) >= 3
    /\ s[Len(s) - 2] = "."
    /\ \/ s[Len(s) - 1] = "N" /\ s[Len(s)] = "S"
       \/ s[Len(s) - 1] = "B" /\ s[Len(s)] = "O"

\* C4: detect_stock_type yields (indian, symbol) for a symbol ending in .NS or
\* .BO; otherwise (indian, symbol + ".NS") when the uppercased symbol is in the
\* allow-list; otherwise (international, symbol).
C4_Classification ==
    lookup_class # None
    => LET s == lookup_symbol
           r == lookup_class[1]
       IN IF C4_HasDomesticSuffix(s)
          THEN r = <<"indian", s>>
          ELSE IF \E t \in indian_stocks :
                      Len(t) = Len(s) /\ \A i \in 1..Len(s) : UpperChar(s[i]) = t[i]
               THEN r = <<"indian", s \o SuffixNS>>
               ELSE r = <<"international", s>>

\* C4 witness: a lower-case allow-list symbol has been classified
C4_Witness ==
    /\ lookup_symbol = Lower(SymTCS)
    /\ lookup_class = Some(<<"indian", <<"t", "c", "s", ".", "N", "S">>>>)

\* the reporting-currency values of holding i at the pass's rate
C5_Invested(i) ==
    view_stocks[i].quantity * view_stocks[i].buy_price
      * (IF HoldingCurrency(view_stocks[i]) = "USD" THEN usd_to_inr[1] ELSE 1)

C5_Current(i) ==
    view_stocks[i].quantity * view_quotes[i].quote.current_price[1]
      * (IF view_quotes[i].quote.price_currency = Some("USD") THEN usd_to_inr[1] ELSE 1)

RECURSIVE C5_Sum(_, _)
\* the sum of f[1..n]
C5_Sum(f, n) == IF n = 0 THEN 0 ELSE C5_Sum(f, n - 1) + f[n]

\* the invested (current) value of each holding with a quote, 0 for the others
C5_InvestedTerms ==
    [i \in 1..Len(view_stocks) |-> IF HasQuote(i) THEN C5_Invested(i) ELSE 0]

C5_CurrentTerms ==
    [i \in 1..Len(view_stocks) |-> IF HasQuote(i) THEN C5_Current(i) ELSE 0]

\* C5: at the end of a pass total_invested_inr and total_current_inr are the
\* sums of the invested and current values over exactly the holdings for which
\* get_stock_price returned a quote (a numeric price, zero included); a holding
\* whose quote is absent has no current value or P&L.
C5_TotalsSumResolvedQuotes ==
    view_outcome = "done"
    => /\ total_invested_inr = C5_Sum(C5_InvestedTerms, Len(view_stocks))
       /\ total_current_inr = C5_Sum(C5_CurrentTerms, Len(view_stocks))
       /\ \A i \in Processed : ~HasQuote(i) => view_rows[i].status = "na"

C6_Invalid(quantity, buy_price) == quantity <= 0 \/ buy_price < 0

\* C6: a holding with non-positive quantity or negative buy price handed to
\* add_stock or met by a pass is rejected as invalid: it is not stored and no
\* invested value, current value or P&L is computed from it.
C6_InvalidHoldingRejected ==
    /\ \A i \in 1..Len(stocks) : ~C6_Invalid(stocks[i].quantity, stocks[i].buy_price)
    /\ (add_call # None /\ C6_Invalid(add_call[1].quantity, add_call[1].buy_price))
       => add_call[1].outcome = "invalid"
    /\ \A i \in 1..Len(view_rows) :
          C6_Invalid(view_stocks[i].quantity, view_stocks[i].buy_price)
          => view_rows[i].status = "na"

\* C7: for every holding with a resolved quote, invested is quantity * buy_price
\* times the rate exactly once for a USD holding and not at all for an INR one,
\* current is quantity * price times the rate exactly once for a USD quote and
\* not at all for an INR one, and pnl is their difference.
C7_ConvertedExactlyOnce ==
    \A i \in Processed :
        HasQuote(i)
        => /\ i <= Len(view_rows)
           /\ view_rows[i].status \in {"valued", "raised"}
           /\ view_rows[i].invested_inr = C5_Invested(i)
           /\ view_rows[i].current_value_inr = C5_Current(i)
           /\ view_rows[i].pnl_inr = C5_Current(i) - C5_Invested(i)

\* every quote lookup of the pass failed
C8_AllLookupsFailed ==
    /\ PassEnded
    /\ \A i \in 1..Len(view_stocks) : i <= Len(view_quotes) /\ ~HasQuote(i)

C8_ZeroTotals ==
    /\ view_outcome = "done"
    /\ total_invested_inr = 0
    /\ total_current_inr = 0
    /\ totals # None
    /\ totals[1].total_pnl_inr = 0
    /\ IsZeroPercent(totals[1].total_pnl_percent)

C9_AbsentQuoteNeverRaises ==
    \A i \in Processed :
        view_quotes[i].cause \in {"exception", "malformed"}
        => /\ ~view_quotes[i].raised
           /\ view_quotes[i].quote = NoQuote
           /\ i <= Len(view_rows)
           /\ view_rows[i].status = "na"
           /\ ~(view_outcome = "raised" /\ i = Len(view_quotes))

\* C9 witness: the first lookup met a network error and the second row was valued
C9_Witness ==
    /\ Len(view_rows) >= 2
    /\ view_quotes[1].cause = "exception"
    /\ view_rows[2].status = "valued"

\* a six-field row for an allow-list symbol
C10_LegacyDomestic(stock) ==
    /\ "currency" \notin DOMAIN stock
    /\ Upper(stock.symbol) \in indian_stocks

\* C10: in a pass an old-schema row for a symbol in the allow-list gets the
\* holding currency and the invested, current and pnl values that a
\* current-schema row with the same symbol, quantity, buy price and
\* currency = INR gets from the same quote.
C10_LegacyRowAsExplicitINR ==
    \A i \in 1..Len(view_rows) :
        C10_LegacyDomestic(view_stocks[i])
        => LET s == view_stocks[i]
               explicit == NewRow(s.id, s.symbol, s.quantity, s.buy_price, "INR")
           IN /\ view_rows[i].currency = "INR"
              /\ view_rows[i] = view_row(explicit, view_quotes[i].quote, usd_to_inr[1]).value
              /\ view_rows[i].status = "valued"
                 => /\ view_rows[i].invested_inr = s.quantity * s.buy_price
                    /\ view_quotes[i].quote.price_currency = Some("INR")
                    /\ view_rows[i].current_value_inr =
                          s.quantity * view_quotes[i].quote.current_price[1]

\* C10 witness: an old-schema row stored in lower case has been valued
C10_Witness ==
    \E i \in 1..Len(view_rows) :
        /\ C10_LegacyDomestic(view_stocks[i])
        /\ view_stocks[i].symbol = Lower(SymTCS)
        /\ view_rows[i].status = "valued"

\* C11: after any sequence of add_stock, delete_stock, delete_multiple_stocks
\* and clear_all_data every stored row has currency INR exactly when
\* detect_stock_type of its stored symbol is indian, USD otherwise; hence for
\* every row of a pass whose quote resolves, the quote's currency is the
\* holding's, and invested and current value are both multiplied by the rate or
\* both not.
C11_StoredCurrencyMatchesQuote ==
    /\ \A i \in 1..Len(stocks) :
          "currency" \in DOMAIN stocks[i]
          => /\ stocks[i].symbol = Upper(stocks[i].symbol)
             /\ (stocks[i].currency = "INR")
                   <=> (detect_stock_type(stocks[i].symbol)[1] = "indian")
             /\ (stocks[i].currency = "USD")
                   <=> (detect_stock_type(stocks[i].symbol)[1] = "international")
    /\ \A i \in 1..Len(view_rows) :
          (schema = "new" /\ HasQuote(i))
          => /\ view_quotes[i].quote.price_currency = Some(view_stocks[i].currency)
             /\ view_rows[i].status \in {"valued", "raised"}
                => LET q == view_stocks[i].quantity
                       r == usd_to_inr[1]
                       both == /\ view_rows[i].invested_inr = q * view_stocks[i].buy_price * r
                               /\ view_rows[i].current_value_inr =
                                     q * view_quotes[i].quote.current_price[1] * r
                       neither == /\ view_rows[i].invested_inr = q * view_stocks[i].buy_price
                                  /\ view_rows[i].current_value_inr =
                                        q * view_quotes[i].quote.current_price[1]
                   IN both \/ neither

\* C11 witness: two rows were added and the first deleted, and a pass has
\* valued the remaining INR row
C11_Witness ==
    /\ schema = "new"
    /\ Len(view_stocks) = 1
    /\ Len(view_rows) = 1
    /\ view_stocks[1].id = 2
    /\ view_stocks[1].currency = "INR"
    /\ view_rows[1].status = "valued"

=============================================================================
